---- MODULE Spec2Model ----
(***************************************************************************)
(* ZeroVault: the background service worker (session key, auto-lock timer, *)
(* message handlers over the encrypted vault in chrome.storage.local) and  *)
(* the popup's zustand stores (auth store, vault store with persist and    *)
(* optimistic sync).                                                       *)
(*                                                                         *)
(* Time is counted in ticks of five minutes.  Storage operations take      *)
(* effect when they are issued (chrome.storage serves one extension's      *)
(* calls in order); their callbacks are delivered later, as separate       *)
(* steps.  crypto.randomUUID() yields a fresh identifier: the n-th         *)
(* credential created gets id n.  crypto.getRandomValues() draws the iv    *)
(* from the set of nonces the specification names.                         *)
(***************************************************************************)
EXTENDS Integers, Sequences, FiniteSets, Bags, TLC

\* ------------------------------------------------------------------ bounds
\* SAVE_CREDENTIAL handlers started
MaxSaves == 2
\* handlers of the worker in flight at once
MaxHandlers == 2
\* the same, where the session is examined
MaxSessionHandlers == 1

\* mutations of the vault store applied
MaxMutations == 2
\* async calls of the vault store in flight at once
MaxTasks == 2
\* the remote's timestamps are 0..MaxTs
MaxTs == 2

\* ------------------------------------------------------- program constants
\* 15 * 60 * 1000 ms, in ticks of five minutes
AutoLockWindow == 3
\* new Uint8Array(12) / combined.slice(0, 12)
IvLength == 12

\* ------------------------------------------------------------------ values
NoKey == "null"
Keys == {"k1", "k2"}
NoData == [url |-> "", username |-> "", password |-> ""]
NoTimer == 0
\* lastSynced: undefined; result.timestamp: missing
Absent == -1

\* values of chrome.storage.local 'vault_credentials': absent, a base64 string,
\* or an array left by an older version
NoEnvelope == [type |-> "undefined", b64 |-> <<>>]
LegacyArray == [type |-> "array", b64 |-> <<>>]

GoodUrl == "https://example.com/login"
WwwUrl == "http://www.example.com"
OtherUrl == "https://evil.com"
BadUrl == "not a url"
Urls == {GoodUrl, WwwUrl, OtherUrl, BadUrl}

Data(u) == [url |-> u, username |-> "u", password |-> "p"]

VARIABLES
    \* background service worker
    sessionKey,      \* let sessionKey: string | null
    sessionStore,    \* chrome.storage.session 'sessionKey'
    restorePending,  \* the start-up chrome.storage.session.get is outstanding
    restoreVal,      \* the value that get will deliver
    autoLockTimer,   \* let autoLockTimer: handle of the last setTimeout, or null
    timers,          \* pending timeouts of the worker: {[id, remaining]}
    vault,           \* chrome.storage.local 'vault_credentials'
    handlers,        \* the bag of in-flight async handlers
    savesStarted,    \* SAVE_CREDENTIAL handlers started so far
    sent,            \* what the last step sent or logged, if anything
    \* history, for the properties
    idle,            \* ticks since the last inbound message, up to MaxIdle
    saved,           \* {[id, key]}: credentials whose handler wrote them
    \* popup: auth store
    isAuthenticated,
    encryptionKey,
    \* popup: vault store
    credentials,
    syncStatus,
    lastSynced,
    tasks,           \* the bag of async calls of the store in flight
    mutations        \* mutations applied so far; Date.now() reads this clock

\* the worker's own state (the vault in chrome.storage.local is shared)
workerVars ==
    <<sessionKey, sessionStore, restorePending, restoreVal, autoLockTimer,
      timers, handlers, savesStarted, sent, idle, saved>>

storeVars ==
    <<isAuthenticated, encryptionKey, credentials, syncStatus, lastSynced,
      tasks, mutations>>

vars == <<workerVars, vault, storeVars>>

MaxIdle == AutoLockWindow + 1

\* ------------------------------------------------------------------ crypto
JSONstringify(v) == [json |-> v]
JSONparse(s) == s.json

Btoa(bytes) == [type |-> "string", b64 |-> bytes]
Atob(s) == s.b64

Iv(n) == [i \in 1..IvLength |-> n]

\* crypto.subtle.encrypt under AES-GCM: an authenticated ciphertext, opaque
\* but for the key and iv it was made with
AesGcmEncrypt(iv, key, data) == [key |-> key, iv |-> iv, pt |-> data]

\* crypto.subtle.decrypt: fails unless key, iv and tag agree
AesGcmDecrypt(iv, key, data) ==
    IF Len(data) = 1 /\ data[1].key = key /\ data[1].iv = iv
    THEN [ok |-> TRUE, pt |-> data[1].pt]
    ELSE [ok |-> FALSE, pt |-> ""]

encryptVaultData(data, keyString, n) ==
    LET iv == Iv(n)
        encrypted == AesGcmEncrypt(iv, keyString, data)
        combined == iv \o <<encrypted>>
    IN  Btoa(combined)

\* decryptVaultData that takes the iv one byte short
decryptVaultDataShortIv(encryptedData, keyString) ==
    IF keyString = NoKey
    THEN [ok |-> FALSE, pt |-> ""]
    ELSE LET combined == Atob(encryptedData)
             iv == SubSeq(combined, 1, IvLength - 1)
             data == SubSeq(combined, IvLength, Len(combined))
         IN  AesGcmDecrypt(iv, keyString, data)

decryptVaultData(encryptedData, keyString) ==
    IF keyString = NoKey
    THEN [ok |-> FALSE, pt |-> ""]
    ELSE LET combined == Atob(encryptedData)
             iv == SubSeq(combined, 1, IvLength)
             data == SubSeq(combined, IvLength + 1, Len(combined))
         IN  AesGcmDecrypt(iv, keyString, data)

\* -------------------------------------------------------------------- urls
\* new URL(u): scheme, hostname; ok = FALSE when the constructor throws
ParseURL(u) ==
    CASE u = GoodUrl ->
            [ok |-> TRUE, scheme |-> "https", hostname |-> "example.com"]
      [] u = WwwUrl ->
            [ok |-> TRUE, scheme |-> "http", hostname |-> "www.example.com"]
      [] u = OtherUrl ->
            [ok |-> TRUE, scheme |-> "https", hostname |-> "evil.com"]
      [] OTHER -> [ok |-> FALSE, scheme |-> "", hostname |-> ""]

\* hostname.replace('www.', '')
StripWww(h) ==
    IF h = "www.example.com" THEN "example.com" ELSE h

\* utils/urlMatcher: scheme-insensitive host comparison, www. stripped,
\* malformed urls match nothing
matchURL(storedUrl, requestedUrl) ==
    LET s == ParseURL(storedUrl)
        r == ParseURL(requestedUrl)
    IN  s.ok /\ r.ok /\ StripWww(s.hostname) = StripWww(r.hostname)

\* ----------------------------------------------------------------- handlers
Idle ==
    [kind |-> "none", pc |-> "idle", data |-> NoData, id |-> 0,
     stored |-> NoEnvelope, key |-> NoKey, creds |-> <<>>]

\* outputs of a step: sendResponse, chrome.tabs.sendMessage, console.log
NoOutput ==
    [type |-> "none", credentials |-> <<>>, locked |-> FALSE, data |-> NoData]

Ack == [NoOutput EXCEPT !.type = "ack"]

Response(matching, locked) ==
    [NoOutput EXCEPT !.type = "credentials", !.credentials = matching,
                     !.locked = locked]

SavePrompt(data) == [NoOutput EXCEPT !.type = "prompt", !.data = data]

\* a handler starts, moves on, returns
Start(h) == handlers (+) SetToBag({h})
Move(h, g) == (handlers (-) SetToBag({h})) (+) SetToBag({g})
Return(h) == handlers (-) SetToBag({h})

InFlight == BagToSet(handlers)

\* fewer than L handlers are in flight
CanStart(L) == BagCardinality(handlers) < L

\* ------------------------------------------------------------ auto-lock
\* the smallest handle not held by a pending timeout
FreshTimer(pending) ==
    CHOOSE n \in 1..(Cardinality(pending) + 1) :
        /\ \A t \in pending : t.id # n
        /\ \A m \in 1..(n - 1) : \E t \in pending : t.id = m

\* clearTimeout(h)
clearTimeout(pending, h) == {t \in pending : t.id # h}

\* resetAutoLockTimer without its clearTimeout: every message adds a timeout
resetAutoLockTimerNoClear(pending, handle) ==
    LET h == FreshTimer(pending)
    IN  [timers |-> pending \cup {[id |-> h, remaining |-> AutoLockWindow]},
         autoLockTimer |-> h]

\* resetAutoLockTimer that leaves a pending timeout running instead of
\* re-arming it
resetAutoLockTimerKeep(pending, handle) ==
    IF \E t \in pending : t.id = handle
    THEN [timers |-> pending, autoLockTimer |-> handle]
    ELSE [timers |-> pending \cup {[id |-> FreshTimer(pending),
                                    remaining |-> AutoLockWindow]},
          autoLockTimer |-> FreshTimer(pending)]

\* resetAutoLockTimer: the pending timeouts and the handle after the call
resetAutoLockTimer(pending, handle) ==
    LET cleared == IF handle # NoTimer THEN clearTimeout(pending, handle)
                   ELSE pending
        h == FreshTimer(cleared)
    IN  [timers |-> cleared \cup {[id |-> h, remaining |-> AutoLockWindow]},
         autoLockTimer |-> h]

\* ------------------------------------------------- background: the listeners
\* the second onMessage listener, run for the same dispatch as the first
Touch ==
    LET r == resetAutoLockTimer(timers, autoLockTimer)
    IN  /\ timers' = r.timers
        /\ autoLockTimer' = r.autoLockTimer
        /\ idle' = 0

\* getDecryptedCredentials() up to its first await: the record of a handler
\* that has issued chrome.storage.local.get
Reading(kind, data) ==
    [Idle EXCEPT !.kind = kind, !.pc = "read", !.data = data, !.stored = vault]

SetSessionKeyMsg(k) ==
    /\ IF k # NoKey
       THEN /\ sessionKey' = k
            /\ sessionStore' = k
            /\ sent' = Ack
       ELSE /\ UNCHANGED <<sessionKey, sessionStore>>
            /\ sent' = NoOutput
    /\ Touch
    /\ UNCHANGED <<restorePending, restoreVal, vault, handlers, savesStarted,
                   saved>>
    /\ UNCHANGED storeVars

RequestCredentialsMsg(url, L) ==
    /\ IF sessionKey = NoKey
       THEN /\ sent' = Response(<<>>, TRUE)
            /\ UNCHANGED handlers
       ELSE /\ CanStart(L)
            /\ handlers' = Start(Reading("request", [NoData EXCEPT !.url = url]))
            /\ sent' = NoOutput
    /\ Touch
    /\ UNCHANGED <<sessionKey, sessionStore, restorePending, restoreVal,
                   vault, savesStarted, saved>>
    /\ UNCHANGED storeVars

FormSubmittedMsg(data, hasTab, L) ==
    /\ IF hasTab /\ sessionKey # NoKey
       THEN /\ CanStart(L)
            /\ handlers' = Start(Reading("form", data))
       ELSE UNCHANGED handlers
    /\ sent' = Ack
    /\ Touch
    /\ UNCHANGED <<sessionKey, sessionStore, restorePending, restoreVal,
                   vault, savesStarted, saved>>
    /\ UNCHANGED storeVars

\* SAVE_CREDENTIAL without the check of the key on entry
SaveCredentialMsgUnguarded(data, L) ==
    /\ savesStarted < MaxSaves
    /\ CanStart(L)
    /\ savesStarted' = savesStarted + 1
    /\ handlers' = Start([Reading("save", data) EXCEPT !.id = savesStarted + 1])
    /\ sent' = Ack
    /\ Touch
    /\ UNCHANGED <<sessionKey, sessionStore, restorePending, restoreVal,
                   vault, saved>>
    /\ UNCHANGED storeVars

SaveCredentialMsg(data, L) ==
    /\ IF sessionKey # NoKey
       THEN /\ savesStarted < MaxSaves
            /\ CanStart(L)
            /\ savesStarted' = savesStarted + 1
            /\ handlers' = Start([Reading("save", data) EXCEPT
                                      !.id = savesStarted + 1])
       ELSE UNCHANGED <<handlers, savesStarted>>
    /\ sent' = Ack
    /\ Touch
    /\ UNCHANGED <<sessionKey, sessionStore, restorePending, restoreVal,
                   vault, saved>>
    /\ UNCHANGED storeVars

UnknownMsg ==
    /\ sent' = NoOutput
    /\ Touch
    /\ UNCHANGED <<sessionKey, sessionStore, restorePending, restoreVal,
                   vault, handlers, savesStarted, saved>>
    /\ UNCHANGED storeVars

\* ------------------------------------------- background: the async handlers
newCredential(data, id) ==
    [id |-> id, name |-> StripWww(ParseURL(data.url).hostname),
     url |-> data.url, username |-> data.username, password |-> data.password]

\* the handlers with handleRequestCredentials answering everything decrypted
ResumeUnfiltered(h, decrypted) ==
    LET existing == \E n \in 1..Len(decrypted) :
                        /\ matchURL(decrypted[n].url, h.data.url)
                        /\ decrypted[n].username = h.data.username
    IN  CASE h.kind = "request" ->
               /\ handlers' = Return(h)
               /\ sent' = Response(decrypted, FALSE)
          [] h.kind = "form" ->
               /\ handlers' = Return(h)
               /\ sent' = IF existing THEN NoOutput ELSE SavePrompt(h.data)
          [] h.kind = "save" ->
               /\ handlers' =
                      IF ~ParseURL(h.data.url).ok \/ sessionKey = NoKey
                      THEN Return(h)
                      ELSE Move(h, [h EXCEPT
                               !.pc = "encrypt", !.stored = NoEnvelope,
                               !.key = sessionKey,
                               !.creds = Append(decrypted,
                                                newCredential(h.data, h.id))])
               /\ sent' = NoOutput

\* the rest of handler h once getDecryptedCredentials() has resolved with
\* `decrypted`, up to its next await
Resume(h, decrypted) ==
    LET Matches(c) == matchURL(c.url, h.data.url)
        existing == \E n \in 1..Len(decrypted) :
                        /\ matchURL(decrypted[n].url, h.data.url)
                        /\ decrypted[n].username = h.data.username
    IN  CASE h.kind = "request" ->
               /\ handlers' = Return(h)
               /\ sent' = Response(SelectSeq(decrypted, Matches), FALSE)
          [] h.kind = "form" ->
               /\ handlers' = Return(h)
               /\ sent' = IF existing THEN NoOutput ELSE SavePrompt(h.data)
          [] h.kind = "save" ->
               /\ handlers' =
                      IF ~ParseURL(h.data.url).ok \/ sessionKey = NoKey
                      THEN Return(h)
                      ELSE Move(h, [h EXCEPT
                               !.pc = "encrypt", !.stored = NoEnvelope,
                               !.key = sessionKey,
                               !.creds = Append(decrypted,
                                                newCredential(h.data, h.id))])
               /\ sent' = NoOutput

\* chrome.storage.local.get resolves
ReadDone(h) ==
    /\ h.pc = "read"
    /\ IF h.stored = NoEnvelope \/ h.stored = LegacyArray
       THEN Resume(h, <<>>)
       ELSE /\ handlers' = Move(h, [h EXCEPT !.pc = "decrypt",
                                             !.key = sessionKey])
            /\ sent' = NoOutput
    /\ UNCHANGED <<sessionKey, sessionStore, restorePending, restoreVal,
                   autoLockTimer, timers, vault, savesStarted, idle, saved>>
    /\ UNCHANGED storeVars

\* decryptVaultData resolves or rejects
DecryptDone(h) ==
    /\ h.pc = "decrypt"
    /\ LET r == decryptVaultData(h.stored, h.key)
       IN  Resume(h, IF r.ok THEN JSONparse(r.pt) ELSE <<>>)
    /\ UNCHANGED <<sessionKey, sessionStore, restorePending, restoreVal,
                   autoLockTimer, timers, vault, savesStarted, idle, saved>>
    /\ UNCHANGED storeVars

\* encryptVaultData resolves; chrome.storage.local.set is issued
EncryptDone(h, n) ==
    /\ h.pc = "encrypt"
    /\ vault' = encryptVaultData(JSONstringify(h.creds), h.key, n)
    /\ handlers' = Move(h, [h EXCEPT !.pc = "write"])
    /\ sent' = NoOutput
    /\ UNCHANGED <<sessionKey, sessionStore, restorePending, restoreVal,
                   autoLockTimer, timers, savesStarted, idle, saved>>
    /\ UNCHANGED storeVars

\* chrome.storage.local.set resolves; 'Credential saved'
WriteDone(h) ==
    /\ h.pc = "write"
    /\ saved' = saved \cup {[id |-> h.id, key |-> h.key]}
    /\ handlers' = Return(h)
    /\ sent' = NoOutput
    /\ UNCHANGED <<sessionKey, sessionStore, restorePending, restoreVal,
                   autoLockTimer, timers, vault, savesStarted, idle>>
    /\ UNCHANGED storeVars

\* --------------------------------------------- background: timer, lifecycle
\* the setTimeout callback of resetAutoLockTimer
AutoLock(t) ==
    /\ t \in timers
    /\ t.remaining = 0
    /\ timers' = timers \ {t}
    /\ sessionKey' = NoKey
    /\ sessionStore' = NoKey
    /\ sent' = NoOutput
    /\ UNCHANGED <<restorePending, restoreVal, autoLockTimer, vault,
                   handlers, savesStarted, idle, saved>>
    /\ UNCHANGED storeVars

\* five minutes pass; a timeout that is due runs first
Tick ==
    /\ \A t \in timers : t.remaining > 0
    /\ timers' = {[t EXCEPT !.remaining = @ - 1] : t \in timers}
    /\ idle' = IF idle < MaxIdle THEN idle + 1 ELSE idle
    /\ sent' = NoOutput
    /\ UNCHANGED <<sessionKey, sessionStore, restorePending, restoreVal,
                   autoLockTimer, vault, handlers, savesStarted, saved>>
    /\ UNCHANGED storeVars

\* the browser stops the idle service worker and starts it again: module
\* state and timeouts are gone, the script's top level runs again
Restart ==
    /\ InFlight = {}
    /\ sessionKey' = NoKey
    /\ autoLockTimer' = NoTimer
    /\ timers' = {}
    /\ restorePending' = TRUE
    /\ restoreVal' = sessionStore
    /\ sent' = NoOutput
    /\ UNCHANGED <<sessionStore, vault, handlers, savesStarted, idle, saved>>
    /\ UNCHANGED storeVars

\* the callback of chrome.storage.session.get('sessionKey')
RestoreDone ==
    /\ restorePending
    /\ restorePending' = FALSE
    /\ sessionKey' = IF restoreVal # NoKey THEN restoreVal ELSE sessionKey
    /\ sent' = NoOutput
    /\ UNCHANGED <<sessionStore, restoreVal, autoLockTimer, timers, vault,
                   handlers, savesStarted, idle, saved>>
    /\ UNCHANGED storeVars

\* ======================================================== popup: auth store
\* Date.now() in the popup
DateNow == mutations + 1

setAuthenticated(authenticated, key) ==
    /\ isAuthenticated' = authenticated
    /\ encryptionKey' = key
    /\ UNCHANGED <<credentials, syncStatus, lastSynced, tasks, mutations>>
    /\ UNCHANGED <<workerVars, vault>>

logout ==
    /\ isAuthenticated' = FALSE
    /\ encryptionKey' = NoKey
    /\ UNCHANGED <<credentials, syncStatus, lastSynced, tasks, mutations>>
    /\ UNCHANGED <<workerVars, vault>>

\* ======================================================= popup: vault store
NoTask == [pc |-> "none", credentials |-> <<>>, key |-> NoKey, since |-> 0]

\* persistToStorage handed the credential that changed last, not the set
persistToStorageDiff(creds, key) ==
    [NoTask EXCEPT !.pc = IF key # NoKey THEN "encrypt" ELSE "write",
                   !.credentials = IF creds = <<>> THEN <<>>
                                   ELSE <<creds[Len(creds)]>>,
                   !.key = key]

\* persistToStorage not awaited: the caller goes straight on to syncVault
persistToStorageNoAwait(creds, key) ==
    [NoTask EXCEPT !.pc = "remote", !.credentials = creds]

\* persistToStorage(credentials) up to its first await: with a key,
\* saveCredentials is awaiting encryptVaultData; without one, the caller is
\* awaiting the resolved promise
persistToStorage(creds, key) ==
    [NoTask EXCEPT !.pc = IF key # NoKey THEN "encrypt" ELSE "write",
                   !.credentials = creds, !.key = key]

\* syncVault up to its await: the state it read, the call it made
syncVaultCall(creds, last) ==
    [NoTask EXCEPT !.pc = "remote", !.credentials = creds,
                   !.since = IF last = Absent \/ last = 0 THEN 0 ELSE last]

\* syncVault after its await: syncStatus and lastSynced once the remote has
\* answered r (r.thrown: the call threw)
syncVaultResult(r, status, last) ==
    IF r.thrown
    THEN [syncStatus |-> "error", lastSynced |-> last]
    ELSE IF r.status = "synced" /\ r.timestamp # Absent /\ r.timestamp # 0
    THEN [syncStatus |-> "synced", lastSynced |-> r.timestamp]
    ELSE IF r.status = "error"
    THEN [syncStatus |-> "error", lastSynced |-> last]
    ELSE [syncStatus |-> status, lastSynced |-> last]

\* what syncService.syncChanges may do: { status, timestamp? }, or throw
Replies ==
    {[thrown |-> FALSE, status |-> st, timestamp |-> ts] :
        st \in {"synced", "error"}, ts \in {Absent} \cup 0..MaxTs}
    \cup {[thrown |-> TRUE, status |-> "", timestamp |-> Absent]}

CanCall == BagCardinality(tasks) < MaxTasks

addCredential(c) ==
    /\ mutations < MaxMutations
    /\ CanCall
    /\ LET new == [id |-> mutations + 1, name |-> c.name, url |-> c.url,
                   username |-> c.username, password |-> c.password,
                   lastUpdated |-> DateNow]
           all == Append(credentials, new)
       IN  /\ credentials' = all
           /\ tasks' = tasks (+) SetToBag({persistToStorage(all, encryptionKey)})
    /\ syncStatus' = "pending"
    /\ mutations' = mutations + 1
    /\ UNCHANGED <<isAuthenticated, encryptionKey, lastSynced>>
    /\ UNCHANGED <<workerVars, vault>>

\* saveCredentials: encryptVaultData has resolved, the envelope is written
PersistEncrypted(t, n) ==
    /\ t.pc = "encrypt"
    /\ vault' = encryptVaultData(JSONstringify(t.credentials), t.key, n)
    /\ tasks' = (tasks (-) SetToBag({t})) (+) SetToBag({[t EXCEPT !.pc = "write"]})
    /\ UNCHANGED <<isAuthenticated, encryptionKey, credentials, syncStatus,
                   lastSynced, mutations>>
    /\ UNCHANGED workerVars

\* await persistToStorage(...) returns; get().syncVault() runs to its await
PersistDone(t) ==
    /\ t.pc = "write"
    /\ tasks' = (tasks (-) SetToBag({t}))
                    (+) SetToBag({syncVaultCall(credentials, lastSynced)})
    /\ syncStatus' = "syncing"
    /\ UNCHANGED <<isAuthenticated, encryptionKey, credentials, lastSynced,
                   mutations>>
    /\ UNCHANGED <<workerVars, vault>>

\* syncVault called on its own
syncVault ==
    /\ CanCall
    /\ tasks' = tasks (+) SetToBag({syncVaultCall(credentials, lastSynced)})
    /\ syncStatus' = "syncing"
    /\ UNCHANGED <<isAuthenticated, encryptionKey, credentials, lastSynced,
                   mutations>>
    /\ UNCHANGED <<workerVars, vault>>

\* syncVault that puts back the credentials it sent when the sync fails
SyncDoneRollback(t, r) ==
    /\ t.pc = "remote"
    /\ LET o == syncVaultResult(r, syncStatus, lastSynced)
       IN  /\ syncStatus' = o.syncStatus
           /\ lastSynced' = o.lastSynced
           /\ credentials' = IF o.syncStatus = "error" THEN t.credentials
                             ELSE credentials
    /\ tasks' = tasks (-) SetToBag({t})
    /\ UNCHANGED <<isAuthenticated, encryptionKey, mutations>>
    /\ UNCHANGED <<workerVars, vault>>

\* syncService.syncChanges resolves with r, or rejects
SyncDone(t, r) ==
    /\ t.pc = "remote"
    /\ LET o == syncVaultResult(r, syncStatus, lastSynced)
       IN  /\ syncStatus' = o.syncStatus
           /\ lastSynced' = o.lastSynced
    /\ tasks' = tasks (-) SetToBag({t})
    /\ UNCHANGED <<isAuthenticated, encryptionKey, credentials, mutations>>
    /\ UNCHANGED <<workerVars, vault>>

Github == [name |-> "github", url |-> "https://github.com", username |-> "u",
           password |-> "p"]

\* ------------------------------------------- vault store: the other actions
\* { ...c, ...updates, lastUpdated: Date.now() }: updates is a Partial, a
\* record over any subset of the credential's fields
Merge(c, updates) ==
    [f \in DOMAIN c |->
        IF f = "lastUpdated" THEN DateNow
        ELSE IF f \in DOMAIN updates THEN updates[f]
        ELSE c[f]]

\* an update that inserts the fields when no credential has the id
MapUpdateUpsert(creds, id, updates) ==
    IF \E i \in 1..Len(creds) : creds[i].id = id
    THEN [i \in 1..Len(creds) |->
             IF creds[i].id = id THEN Merge(creds[i], updates) ELSE creds[i]]
    ELSE Append(creds, Merge([id |-> id, name |-> "", url |-> "",
                              username |-> "", password |-> "",
                              lastUpdated |-> 0], updates))

\* credentials.map(c => c.id === id ? merged : c)
MapUpdate(creds, id, updates) ==
    [i \in 1..Len(creds) |->
        IF creds[i].id = id THEN Merge(creds[i], updates) ELSE creds[i]]

updateCredential(id, updates) ==
    /\ mutations < MaxMutations
    /\ CanCall
    /\ LET all == MapUpdate(credentials, id, updates)
       IN  /\ credentials' = all
           /\ tasks' = tasks (+) SetToBag({persistToStorage(all, encryptionKey)})
    /\ syncStatus' = "pending"
    /\ mutations' = mutations + 1
    /\ UNCHANGED <<isAuthenticated, encryptionKey, lastSynced>>
    /\ UNCHANGED <<workerVars, vault>>

deleteCredential(id) ==
    /\ mutations < MaxMutations
    /\ CanCall
    /\ LET Keep(c) == c.id # id
           all == SelectSeq(credentials, Keep)
       IN  /\ credentials' = all
           /\ tasks' = tasks (+) SetToBag({persistToStorage(all, encryptionKey)})
    /\ syncStatus' = "pending"
    /\ mutations' = mutations + 1
    /\ UNCHANGED <<isAuthenticated, encryptionKey, lastSynced>>
    /\ UNCHANGED <<workerVars, vault>>

\* clearVault written as one more mutation: it persists the empty set
clearVaultAndPersist ==
    /\ credentials' = <<>>
    /\ lastSynced' = Absent
    /\ syncStatus' = "synced"
    /\ tasks' = tasks (+) SetToBag({[NoTask EXCEPT !.pc = "encrypt",
                                                  !.key = encryptionKey]})
    /\ UNCHANGED <<isAuthenticated, encryptionKey, mutations>>
    /\ UNCHANGED <<workerVars, vault>>

clearVault ==
    /\ credentials' = <<>>
    /\ lastSynced' = Absent
    /\ syncStatus' = "synced"
    /\ UNCHANGED <<isAuthenticated, encryptionKey, tasks, mutations>>
    /\ UNCHANGED <<workerVars, vault>>

setCredentials(creds) ==
    /\ credentials' = creds
    /\ UNCHANGED <<isAuthenticated, encryptionKey, syncStatus, lastSynced,
                   tasks, mutations>>
    /\ UNCHANGED <<workerVars, vault>>

\* a vault loaded from elsewhere: two credentials with ids of their own
Imported ==
    <<[id |-> 101, name |-> "github", url |-> "https://github.com",
       username |-> "u", password |-> "p", lastUpdated |-> 1],
      [id |-> 102, name |-> "example", url |-> GoodUrl,
       username |-> "u", password |-> "p", lastUpdated |-> 1]>>

\* the partials update is called with: a field changed, the id changed
Partials == {[password |-> "q"]} \cup {[id |-> i] : i \in {1, 102}}

\* ============================================================ specifications
\* The browser has started, the extension is installed and nothing is stored:
\* the worker's script has run to the end of its top level, the popup's
\* stores are constructed.
Init ==
    /\ sessionKey = NoKey
    /\ sessionStore = NoKey
    /\ restorePending = TRUE
    /\ restoreVal = NoKey
    /\ autoLockTimer = NoTimer
    /\ timers = {}
    /\ vault = NoEnvelope
    /\ handlers = EmptyBag
    /\ savesStarted = 0
    /\ sent = NoOutput
    /\ idle = 0
    /\ saved = {}
    /\ isAuthenticated = FALSE
    /\ encryptionKey = NoKey
    /\ credentials = <<>>
    /\ syncStatus = "synced"
    /\ lastSynced = 1
    /\ tasks = EmptyBag
    /\ mutations = 0

\* The same, once setAuthenticated(true, "k1") has run in the popup.
InitUnlocked ==
    /\ sessionKey = NoKey
    /\ sessionStore = NoKey
    /\ restorePending = TRUE
    /\ restoreVal = NoKey
    /\ autoLockTimer = NoTimer
    /\ timers = {}
    /\ vault = NoEnvelope
    /\ handlers = EmptyBag
    /\ savesStarted = 0
    /\ sent = NoOutput
    /\ idle = 0
    /\ saved = {}
    /\ isAuthenticated = TRUE
    /\ encryptionKey = "k1"
    /\ credentials = <<>>
    /\ syncStatus = "synced"
    /\ lastSynced = 1
    /\ tasks = EmptyBag
    /\ mutations = 0

\* the steps of the asynchronous handlers, ivs drawn from N
HandlerStep(N) ==
    \/ \E h \in InFlight : ReadDone(h)
    \/ \E h \in InFlight : DecryptDone(h)
    \/ \E h \in InFlight, n \in N : EncryptDone(h, n)
    \/ \E h \in InFlight : WriteDone(h)

\* an inbound message, with keys, urls and form data drawn from K, U and D,
\* accepted while fewer than L handlers are in flight
OnMessage(K, U, D, L) ==
    \/ \E k \in K \cup {NoKey} : SetSessionKeyMsg(k)
    \/ \E u \in U : RequestCredentialsMsg(u, L)
    \/ \E d \in D, hasTab \in BOOLEAN : FormSubmittedMsg(d, hasTab, L)
    \/ \E d \in D : SaveCredentialMsg(d, L)
    \/ UnknownMsg

\* The session: key, mirror, auto-lock timer and worker restarts, with the
\* messages of one site.
NextSession ==
    \/ OnMessage({"k1"}, {GoodUrl}, {Data(GoodUrl)}, MaxSessionHandlers)
    \/ HandlerStep({1})
    \/ \E t \in timers : AutoLock(t)
    \/ Tick
    \/ Restart
    \/ RestoreDone

SpecSession == Init /\ [][NextSession]_vars

\* The lifetime of the key: unlock and logout in the popup, SET_SESSION_KEY
\* with either key, auto-lock, worker restarts.
NextLifetime ==
    \/ \E k \in Keys : setAuthenticated(TRUE, k)
    \/ logout
    \/ \E k \in Keys \cup {NoKey} : SetSessionKeyMsg(k)
    \/ \E u \in {GoodUrl} : RequestCredentialsMsg(u, MaxSessionHandlers)
    \/ \E h \in InFlight : ReadDone(h)
    \/ \E t \in timers : AutoLock(t)
    \/ Tick
    \/ Restart
    \/ RestoreDone

SpecLifetime == Init /\ [][NextLifetime]_vars

\* The vault in storage: concurrent handlers under one key, within one tick
\* of the clock.
NextVault ==
    \/ OnMessage({"k1"}, Urls, {Data(GoodUrl), Data(BadUrl)}, MaxHandlers)
    \/ HandlerStep({1})
    \/ RestoreDone

SpecVault == Init /\ [][NextVault]_vars

\* The vault under two keys: the key is replaced while credentials encrypted
\* under the other one are stored; ivs are drawn from two.
NextKeys ==
    \/ OnMessage(Keys, {GoodUrl}, {Data(GoodUrl)}, MaxSessionHandlers)
    \/ HandlerStep({1, 2})
    \/ RestoreDone

SpecKeys == Init /\ [][NextKeys]_vars

\* The vault with the credentials of two sites, requested by the urls of
\* either.
NextSites ==
    \/ OnMessage({"k1"}, {WwwUrl, OtherUrl}, {Data(GoodUrl), Data(OtherUrl)},
                 MaxSessionHandlers)
    \/ HandlerStep({1})
    \/ RestoreDone

SpecSites == Init /\ [][NextSites]_vars

\* The vault store of the popup.
StoreStep ==
    \/ addCredential(Github)
    \/ \E t \in BagToSet(tasks), n \in {1} : PersistEncrypted(t, n)
    \/ \E t \in BagToSet(tasks) : PersistDone(t)
    \/ syncVault
    \/ \E t \in BagToSet(tasks), r \in Replies : SyncDone(t, r)

NextStore ==
    \/ \E k \in {"k1"} : setAuthenticated(TRUE, k)
    \/ logout
    \/ StoreStep

SpecStore == Init /\ [][NextStore]_vars

\* The vault store once unlocked.
SpecUnlocked == InitUnlocked /\ [][StoreStep]_vars

\* a mutation of the vault store, on ids drawn from I with partials from P
Mutation(I, P) ==
    \/ addCredential(Github)
    \/ \E id \in I, u \in P : updateCredential(id, u)
    \/ \E id \in I : deleteCredential(id)

\* the asynchronous steps of the store against a remote that answers from R
StoreAsync(R) ==
    \/ \E t \in BagToSet(tasks), n \in {1} : PersistEncrypted(t, n)
    \/ \E t \in BagToSet(tasks) : PersistDone(t)
    \/ \E t \in BagToSet(tasks), r \in R : SyncDone(t, r)

\* the remote answers synced with a timestamp, error, or throws
MutationReplies ==
    {r \in Replies : r.thrown \/ (r.status = "synced") = (r.timestamp = MaxTs)}

\* The vault store unlocked: mutations on present and absent ids, clear,
\* persist and sync.
NextMutations ==
    \/ Mutation(1..MaxMutations, {[password |-> "q"]})
    \/ clearVault
    \/ StoreAsync(MutationReplies)

SpecMutations == InitUnlocked /\ [][NextMutations]_vars

\* The credential set under every action that writes it.
NextCollection ==
    \/ Mutation(1..MaxMutations \cup {101, 102}, Partials)
    \/ clearVault
    \/ \E c \in {Imported} : setCredentials(c)
    \/ StoreAsync(MutationReplies)

SpecCollection == InitUnlocked /\ [][NextCollection]_vars

\* ================================================================ properties
\* the credentials in the persisted envelope as key k decrypts it
Persisted(k) ==
    IF vault.type # "string"
    THEN <<>>
    ELSE LET r == decryptVaultData(vault, k)
         IN  IF r.ok THEN JSONparse(r.pt) ELSE <<>>

Ids(seq) == {seq[i].id : i \in 1..Len(seq)}

Persisting == {t \in BagToSet(tasks) : t.pc \in {"encrypt", "write"}}

\* C1: once N concurrent addCredential calls with a live key and their
\* persists have completed, the persisted envelope holds exactly the N new
\* credentials, one per call, no two with the same id.
C1_ConcurrentAddsAllPersisted ==
    Persisting = {} =>
        /\ Len(Persisted(encryptionKey)) = mutations
        /\ Ids(Persisted(encryptionKey)) = 1..mutations

\* C2: after the SAVE_CREDENTIAL handlers have finished, the persisted
\* envelope holds the credential of every handler that wrote one, whatever
\* the interleaving of their reads, decrypts, encrypts and writes.
C2_SaveCredentialAtomic ==
    (\A h \in InFlight : h.kind # "save") =>
        \A c \in saved : c.id \in Ids(Persisted(c.key))

\* C3: while a key is live, an auto-lock timeout is pending that expires one
\* window after the last inbound message, so the key does not outlive a
\* window without messages; also after a restart that restored the key.
C3_AutoLockAfterInactivity ==
    sessionKey # NoKey =>
        /\ idle <= AutoLockWindow
        /\ \E t \in timers : t.remaining = AutoLockWindow - idle

\* C4: a logout ends the key's lifetime everywhere: after it the worker holds
\* no live key and session storage holds no mirrored copy.
C4_LogoutEndsKeyLifetime ==
    [][logout => (sessionKey' = NoKey /\ sessionStore' = NoKey)]_vars

\* C5: while the mirrored key is in session storage, no REQUEST_CREDENTIALS
\* is answered with the locked-vault empty result, the first message after a
\* restart included.
C5_RequestAfterRestartNotLocked ==
    (sent.type = "credentials" /\ sent.locked) => sessionStore = NoKey

\* C6: a live key changes only when SET_SESSION_KEY is handled, when
\* auto-lock fires or when the worker restarts; the start-up restore does not
\* change it.
C6_KeyStaysUntilLockOrSet ==
    [][(sessionKey # NoKey /\ sessionKey' # sessionKey) =>
           \/ \E k \in Keys : SetSessionKeyMsg(k)
           \/ \E t \in timers : AutoLock(t)
           \/ Restart]_vars

\* C7: at most one auto-lock timeout is pending, it is the one the worker
\* holds the handle of, and it expires one window after the last inbound
\* message: a cancelled timeout never fires.
C7_OneTimerPending ==
    /\ Cardinality(timers) <= 1
    /\ \A t \in timers :
           /\ t.id = autoLockTimer
           /\ t.remaining = AutoLockWindow - idle

\* a message has re-armed the timeout while a handler of an earlier message
\* was still in flight
C7_Rearmed ==
    /\ sessionKey # NoKey
    /\ handlers # EmptyBag
    /\ idle = 0
    /\ timers = {[id |-> autoLockTimer, remaining |-> AutoLockWindow]}
    /\ sent.type = "none"

\* C8: every inbound message, of every kind, leaves the timeout pending with
\* the full window to run from the arrival of that message.
C8_EveryMessageResetsDeadline ==
    [][OnMessage(Keys, Urls, {Data(u) : u \in Urls}, MaxHandlers) =>
           /\ idle' = 0
           /\ \E t \in timers' :
                  /\ t.id = autoLockTimer'
                  /\ t.remaining = AutoLockWindow]_vars

\* the last of the SAVE_CREDENTIAL messages has just been acknowledged and the
\* timeout has the full window to run
C8_ResetMidWindow ==
    /\ sent.type = "ack"
    /\ idle = 0
    /\ \E t \in timers : t.remaining = AutoLockWindow
    /\ savesStarted = MaxSaves

\* C9: when the remote answers synced with a timestamp t, the round-trip ends
\* with syncStatus = synced and lastSynced = t; when it answers error or the
\* call throws, with syncStatus = error and lastSynced unchanged.
C9_SyncOutcomeFollowsReply ==
    [][\A t \in BagToSet(tasks), r \in Replies :
           SyncDone(t, r) =>
               /\ (~r.thrown /\ r.status = "synced" /\ r.timestamp # Absent) =>
                      (syncStatus' = "synced" /\ lastSynced' = r.timestamp)
               /\ (r.thrown \/ r.status = "error") =>
                      (syncStatus' = "error" /\ lastSynced' = lastSynced)]_vars

\* C10: whatever the remote answers, or throws, the round-trip ends with
\* syncStatus synced or error, never left at syncing.
C10_SyncLeavesSyncing ==
    [][\A t \in BagToSet(tasks), r \in Replies :
           SyncDone(t, r) => syncStatus' \in {"synced", "error"}]_vars

\* the number of calls in the bag that are at pc
CountAt(bag, pc) ==
    LET at == {t \in BagToSet(bag) : t.pc = pc}
    IN  BagCardinality([t \in at |-> bag[t]])

\* C11: a mutation sets syncStatus to pending as it applies the change,
\* whatever the status was, and starts no sync itself: a sync call is made
\* only by a call whose persist has completed, in place of that persist.
C11_MutationMarksPending ==
    [][/\ mutations' # mutations =>
              /\ syncStatus' = "pending"
              /\ CountAt(tasks', "remote") = CountAt(tasks, "remote")
       /\ CountAt(tasks', "remote") > CountAt(tasks, "remote") =>
              /\ CountAt(tasks', "remote") = CountAt(tasks, "remote") + 1
              /\ CountAt(tasks', "write") = CountAt(tasks, "write") - 1
              /\ CountAt(tasks', "encrypt") = CountAt(tasks, "encrypt")]_vars

\* a mutation has been applied while an earlier sync was under way
C11_MutatedWhileSyncing ==
    /\ syncStatus = "pending"
    /\ CountAt(tasks, "remote") = 1
    /\ CountAt(tasks, "encrypt") = 1
    /\ mutations = MaxMutations

\* C12: a step of a sync round-trip, its call or its completion with any
\* outcome, leaves the in-memory credentials and the persisted envelope as
\* they were.
C12_SyncKeepsLocalWrites ==
    [][CountAt(tasks', "remote") # CountAt(tasks, "remote") =>
           /\ credentials' = credentials
           /\ vault' = vault]_vars

\* the sync that followed the last mutation has failed, and the credentials
\* and the envelope still hold what the mutations wrote
C12_FailedSyncKeptWrites ==
    /\ syncStatus = "error"
    /\ tasks = EmptyBag
    /\ mutations = MaxMutations
    /\ Len(credentials) >= 1
    /\ Persisted(encryptionKey) = credentials

\* C13: clearVault empties the credentials and sets syncStatus = synced with
\* lastSynced absent; it makes no call (no persist, no sync) and does not
\* write the envelope.
C13_ClearIsLocal ==
    [][clearVault =>
           /\ credentials' = <<>>
           /\ syncStatus' = "synced"
           /\ lastSynced' = Absent
           /\ tasks' = tasks
           /\ vault' = vault]_vars

\* the vault was cleared after credentials were persisted: the envelope
\* still holds them
C13_ClearedWithEnvelope ==
    /\ credentials = <<>>
    /\ syncStatus = "synced"
    /\ lastSynced = Absent
    /\ tasks = EmptyBag
    /\ Len(Persisted(encryptionKey)) >= 1

\* C14: update and delete called with an id that no credential has leave
\* the credential set as it is, lastUpdated included, and carry on as any
\* mutation does: syncStatus becomes pending and the set is handed to
\* persistToStorage (the sync follows the persist, C11).  Neither has a
\* failing path.
C14_AbsentIdIsNoOp ==
    [][\A id \in (1..MaxMutations) \ Ids(credentials) :
           (\/ \E u \in Partials : updateCredential(id, u)
            \/ deleteCredential(id)) =>
               /\ credentials' = credentials
               /\ syncStatus' = "pending"
               /\ \E t \in BagToSet(tasks') :
                      /\ t = persistToStorage(credentials, encryptionKey)
                      /\ CopiesIn(t, tasks') = CopiesIn(t, tasks) + 1]_vars

\* a credential was added and then update or delete was called with
\* another id: the credential is as it was added, and two persists are
\* under way
C14_AbsentIdAfterAdd ==
    /\ mutations = 2
    /\ Len(credentials) = 1
    /\ credentials[1].lastUpdated = 1
    /\ syncStatus = "pending"
    /\ CountAt(tasks, "encrypt") = 2

\* C15: what a mutation hands to the persist step is the whole in-memory
\* credential set as it stands right after the mutation.
C15_PersistIsFullSnapshot ==
    [][mutations' # mutations =>
           \E t \in BagToSet(tasks') :
               /\ t.pc \in {"encrypt", "write"}
               /\ t.credentials = credentials'
               /\ CopiesIn(t, tasks') = CopiesIn(t, tasks) + 1]_vars

\* a persist of a set of two credentials is under way
C15_SnapshotOfTwo ==
    \E t \in BagToSet(tasks) :
        /\ t.pc = "encrypt"
        /\ Len(t.credentials) = 2
        /\ t.credentials = credentials

\* C16: no two credentials of the in-memory set share an id, after any
\* sequence of add, update with any partial, delete, setCredentials and
\* clearVault.
C16_IdsUnique ==
    \A i, j \in 1..Len(credentials) :
        i # j => credentials[i].id # credentials[j].id

\* C17: when decryptVaultData fails on the stored envelope, what
\* REQUEST_CREDENTIALS is answered with differs from the answer given when
\* the envelope decrypts and no credential matches.
C17_DecryptFailureSurfaced ==
    [][\A h \in InFlight :
           (/\ h.kind = "request"
            /\ DecryptDone(h)
            /\ ~decryptVaultData(h.stored, h.key).ok) =>
               sent' # Response(<<>>, FALSE)]_vars

\* the number of handlers of a kind in flight
CountKind(bag, kind) ==
    LET of == {h \in BagToSet(bag) : h.kind = kind}
    IN  BagCardinality([h \in of |-> bag[h]])

\* C18: a message dispatched while the worker holds no key starts no
\* handler, so nothing is read, decrypted or written for it, and leaves the
\* envelope as it is: REQUEST_CREDENTIALS is answered with the empty list,
\* FORM_SUBMITTED sends no save prompt, SAVE_CREDENTIAL saves nothing.
C18_LockedVaultUntouched ==
    [][sessionKey = NoKey =>
           /\ (\E u \in Urls : RequestCredentialsMsg(u, MaxHandlers)) =>
                  /\ sent'.type = "credentials"
                  /\ sent'.credentials = <<>>
                  /\ handlers' = handlers
                  /\ vault' = vault
           /\ (\E u \in Urls, hasTab \in BOOLEAN :
                   FormSubmittedMsg(Data(u), hasTab, MaxHandlers)) =>
                  /\ sent'.type # "prompt"
                  /\ handlers' = handlers
                  /\ vault' = vault
           /\ (\E u \in Urls : SaveCredentialMsg(Data(u), MaxHandlers)) =>
                  /\ handlers' = handlers
                  /\ vault' = vault]_vars

\* a request has just been answered as locked while the envelope holds a
\* credential
C18_LockedWithEnvelope ==
    /\ sessionKey = NoKey
    /\ sent = Response(<<>>, TRUE)
    /\ vault.type = "string"
    /\ handlers = EmptyBag

\* C19: a request handler in flight can always take its next step, it ends
\* by sending one response and a response is sent only so (or at once, when
\* locked); when the envelope decrypts, the response holds exactly the
\* decrypted credentials whose url matchURL accepts for the requested url,
\* in their order.
C19_RequestAnsweredExactly ==
    [][/\ \A h \in InFlight :
              h.kind = "request" => ENABLED (ReadDone(h) \/ DecryptDone(h))
       /\ CountKind(handlers', "request") < CountKind(handlers, "request") =>
              /\ CountKind(handlers', "request")
                     = CountKind(handlers, "request") - 1
              /\ sent'.type = "credentials"
              /\ ~sent'.locked
       /\ sent'.type = "credentials" =>
              \/ /\ ~sent'.locked
                 /\ CountKind(handlers', "request")
                        = CountKind(handlers, "request") - 1
              \/ /\ sent'.locked
                 /\ sessionKey = NoKey
                 /\ handlers' = handlers
       /\ \A h \in InFlight :
              (/\ h.kind = "request"
               /\ DecryptDone(h)
               /\ decryptVaultData(h.stored, h.key).ok) =>
                  LET set == JSONparse(decryptVaultData(h.stored, h.key).pt)
                      Wanted(c) == matchURL(c.url, h.data.url)
                  IN  sent' = Response(SelectSeq(set, Wanted), FALSE)]_vars

\* a request was answered with one credential of the two the envelope holds
C19_OneOfTwoMatched ==
    /\ sent.type = "credentials"
    /\ ~sent.locked
    /\ Len(sent.credentials) = 1
    /\ Len(Persisted(sessionKey)) = 2

C21_LiveKeyHasTimer ==
    sessionKey # NoKey => \E t \in timers : t.id = autoLockTimer

\* the credentials an envelope holds, whatever key it was made with
Stored(v) ==
    IF v.type = "string" THEN JSONparse(Atob(v)[IvLength + 1].pt) ELSE <<>>

\* C22: a write of the envelope by a SAVE_CREDENTIAL handler leaves in it
\* every credential the envelope held before the write, followed by the one
\* new credential.
C22_SaveOnlyAppends ==
    [][\A h \in InFlight, n \in {1, 2} :
           EncryptDone(h, n) =>
               /\ Len(Stored(vault')) = Len(Stored(vault)) + 1
               /\ SubSeq(Stored(vault'), 1, Len(Stored(vault)))
                      = Stored(vault)]_vars

\* C23: a SAVE_CREDENTIAL that has been acknowledged is persisted: once it
\* is acknowledged and no handler is left in flight to persist it, the
\* envelope holds a credential with its url, username and password.
C23_AckedSaveIsPersisted ==
    [][\A u \in Urls :
           (/\ SaveCredentialMsg(Data(u), MaxHandlers)
            /\ sent' = Ack
            /\ handlers' = EmptyBag) =>
               \E i \in 1..Len(Stored(vault')) :
                   /\ Stored(vault')[i].url = u
                   /\ Stored(vault')[i].username = Data(u).username
                   /\ Stored(vault')[i].password = Data(u).password]_vars

\* C24: when a sync round-trip completes and leaves syncStatus synced, the
\* credentials it sent are the credentials in memory.
C24_SyncedIsNotStale ==
    [][\A t \in BagToSet(tasks), r \in Replies :
           (SyncDone(t, r) /\ syncStatus' = "synced") =>
               t.credentials = credentials']_vars

\* the timestamp of a remote that numbers a call by the size of the set it
\* was sent: while credentials are only added, the sets sent grow with the
\* order in which the calls were started, and so do these timestamps
Stamp(t) == Len(t.credentials) + 1

\* what that remote answers to the call t: synced with its stamp, or a throw
StampedReplies(t) ==
    {[thrown |-> FALSE, status |-> "synced", timestamp |-> Stamp(t)]}
    \cup {r \in Replies : r.thrown}

\* The vault store unlocked, credentials only added, against a remote whose
\* timestamps follow the order of the calls.
NextStamped ==
    \/ addCredential(Github)
    \/ \E t \in BagToSet(tasks), n \in {1} : PersistEncrypted(t, n)
    \/ \E t \in BagToSet(tasks) : PersistDone(t)
    \/ syncVault
    \/ \E t \in BagToSet(tasks) : \E r \in StampedReplies(t) : SyncDone(t, r)

SpecStamped == InitUnlocked /\ [][NextStamped]_vars

\* C25: against a remote whose timestamps increase with the order in which
\* the calls were started, a successful completion never leaves lastSynced
\* smaller than it was.
C25_LastSyncedMonotone ==
    [][\A t \in BagToSet(tasks) :
           \A r \in StampedReplies(t) :
               (SyncDone(t, r) /\ ~r.thrown) => lastSynced' >= lastSynced]_vars

\* the state clearVault leaves, with no mutation applied since
Cleared ==
    credentials = <<>> /\ lastSynced = Absent /\ syncStatus = "synced"

\* C26: from the state clearVault left, a step that neither applies a
\* mutation nor starts a sync round-trip leaves lastSynced absent,
\* syncStatus synced and the persisted envelope as it was.
C26_ClearNotUndone ==
    [][(/\ Cleared
        /\ mutations' = mutations
        /\ CountAt(tasks', "remote") <= CountAt(tasks, "remote")) =>
           /\ lastSynced' = Absent
           /\ syncStatus' = "synced"
           /\ vault' = vault]_vars

====
